---- MODULE Spec2Model ----
(***************************************************************************)
(* Model of the Samsung EA8074 DSI panel driver                            *)
(* (drivers/gpu/drm/panel/panel-samsung-ea8074.c): reset line, power-on    *)
(* and power-off command sequences, prepare/unprepare and the backlight    *)
(* callbacks.  Every callback is one action; what it did on the reset      *)
(* line and on the DSI transport is recorded, in program order, in the     *)
(* event list `trace` of the call.                                         *)
(***************************************************************************)
EXTENDS Integers, Sequences, FiniteSets, TLC

VARIABLES
  prepared,     \* ctx->prepared
  reset_gpio,   \* logical value last driven on ctx->reset_gpio
  mode_flags,   \* dsi->mode_flags, as the set of flags that are set
  op,           \* the callback that ran last ("probe" before any call)
  arg,          \* its argument: the requested brightness, for get_modes the
                \* number of modes the connector held, 0 for the others
  ret,          \* its return value
  trace,        \* events of the last call, in program order
  pre,          \* prepared / reset_gpio / mode_flags when the last call began
  prev,         \* summary of the call before the last one
  hist,         \* history: what happened since the most recent reset pulse,
                \* and which call changed `prepared` last
  connector,    \* the connector get_modes reports to: probed modes, display_info
  static_mode,  \* the content of the static descriptor samsung_ea8074_mode
  rclk,         \* clk-regmap.c: enable_mask / enable_is_inverted of a clk_regmap
  enable_reg,   \* content of the register rclk->enable_reg in the regmap
  clk_regmap_list,  \* the handles on clk_regmap_list, head first
  clk_regmap_lock,  \* TRUE while clk_regmap_lock is held
  clk_regmap_of,    \* rclk->regmap of every handle: "unset", "dev" or "parent"
  clk_registered,   \* handles registered with the clock framework
  clkcall       \* the last clk-regmap call and what it saw

modevars == <<connector, static_mode>>

clkvars == <<rclk, enable_reg, clk_regmap_list, clk_regmap_lock, clk_regmap_of,
             clk_registered, clkcall>>

panelvars == <<prepared, reset_gpio, mode_flags, op, arg, ret, trace, pre, prev, hist>>

vars == <<prepared, reset_gpio, mode_flags, op, arg, ret, trace, pre, prev, hist,
          connector, static_mode, rclk, enable_reg, clk_regmap_list,
          clk_regmap_lock, clk_regmap_of, clk_registered, clkcall>>

----------------------------------------------------------------------------
(* Bounds and inputs *)

\* errno values the transport may return are -1 .. -MaxErrno
MaxErrno == 2

Errs == {0 - e : e \in 1..MaxErrno}

\* A transport behaviour for one call: the set of transfer positions (1-based,
\* counted within the call) that fail, and the error they fail with.  Either
\* nothing fails or exactly one position fails (later positions would work).
Transports(n) ==
  {[fail |-> {}, err |-> 0]} \cup
  { [fail |-> {k}, err |-> e] : k \in 1..n, e \in Errs }

\* return code of the i-th transfer of a call
Xfer(t, i) == IF i \in t.fail THEN t.err ELSE 0

max_brightness == 1023

\* brightness values requested in the full specification
BrightnessSamples == {0, 512, max_brightness}

\* values the panel may answer to a brightness read
ReadBack == {0, 512, max_brightness}

\* get_modes is called while the connector holds fewer probed modes than this
MaxProbed == 2

\* width, in bits, of the modelled enable register (unsigned int in the code)
RegBits == 3

\* number of clock handles (struct clk_hw) besides NULL
NumClks == 2

----------------------------------------------------------------------------
(* Events *)

GpioEv(v) ==
  [kind |-> "gpio", cmd |-> "", params |-> <<>>, val |-> v, lpm |-> FALSE]

SendEv(cmd, params, rc, lpm) ==
  [kind |-> "send", cmd |-> cmd, params |-> params, val |-> rc, lpm |-> lpm]

SleepEv(us) ==
  [kind |-> "sleep", cmd |-> "", params |-> <<>>, val |-> us, lpm |-> FALSE]

LogEv(msg, rc) ==
  [kind |-> "log", cmd |-> msg, params |-> <<>>, val |-> rc, lpm |-> FALSE]

\* the events of one kind, in order
OfKind(ev, k) == SelectSeq(ev, LAMBDA e : e.kind = k)

Sends(ev) == OfKind(ev, "send")

Gpios(ev) == OfKind(ev, "gpio")

Logs(ev) == OfKind(ev, "log")

----------------------------------------------------------------------------
(* Primitive effects.  A driver state `st` is a record                     *)
(* [prepared, reset_gpio, mode_flags, ev].                                 *)

gpiod_set_value_cansleep(st, v) ==
  [st EXCEPT !.reset_gpio = v, !.ev = Append(@, GpioEv(v))]

\* usleep_range(us, ..) and msleep(us / 1000): at least us microseconds pass
usleep_range(st, us) == [st EXCEPT !.ev = Append(@, SleepEv(us))]

dev_err(st, msg, rc) == [st EXCEPT !.ev = Append(@, LogEv(msg, rc))]

\* one DCS transfer: it goes out with the bus mode in force at that moment
dsi_transfer(st, cmd, params, rc) ==
  [st EXCEPT !.ev = Append(@, SendEv(cmd, params, rc, "LPM" \in st.mode_flags))]

----------------------------------------------------------------------------
(* The reset pulse *)

\* a reset pulse that never releases the line
reset_no_release(st) ==
  LET s1 == usleep_range(gpiod_set_value_cansleep(st, 0), 1000)
  IN  usleep_range(usleep_range(gpiod_set_value_cansleep(s1, 1), 1000), 10000)

samsung_ea8074_reset(st) ==
  LET s1 == usleep_range(gpiod_set_value_cansleep(st, 0), 1000)
      s2 == usleep_range(gpiod_set_value_cansleep(s1, 1), 1000)
  IN  usleep_range(gpiod_set_value_cansleep(s2, 0), 10000)

----------------------------------------------------------------------------
(* The power-on and power-off command tables *)

\* a step sent with a mipi_dsi_dcs_* helper whose result the driver tests
Dcs(cmd, params, us, what) ==
  [cmd |-> cmd, params |-> params, delay |-> us, seq |-> FALSE, what |-> what]

\* a step sent with mipi_dsi_dcs_write_seq
WSeq(cmd, params, us) ==
  [cmd |-> cmd, params |-> params, delay |-> us, seq |-> TRUE,
   what |-> "sending command failed"]

PowerOnSeq ==
  << Dcs("exit_sleep_mode", <<>>, 10000, "Failed to exit sleep mode"),
     Dcs("set_column_address", <<0, 1079>>, 10000, "Failed to set column address"),
     Dcs("set_page_address", <<0, 2159>>, 10000, "Failed to set page address"),
     Dcs("set_tear_on", <<0>>, 10000, "Failed to set tear on"),
     WSeq("write_control_display", <<32>>, 10000),
     Dcs("set_display_brightness", <<0>>, 10000, "Failed to set display brightness"),
     WSeq("write_power_save", <<0>>, 10000),
     WSeq("0xf0", <<90, 90>>, 10000),
     WSeq("0xb0", <<6>>, 10000),
     WSeq("0xef", <<53>>, 10000),
     WSeq("0xcc", <<85, 18>>, 10000),
     WSeq("0xfc", <<90, 90>>, 10000),
     WSeq("0xb0", <<1>>, 10000),
     WSeq("0xd2", <<32>>, 10000),
     WSeq("0xb0", <<5>>, 10000),
     WSeq("0xd2", <<64>>, 10000),
     WSeq("0xfc", <<165, 165>>, 10000),
     WSeq("0xf0", <<165, 165>>, 110000),
     WSeq("write_memory_start", <<>>, 10000),
     Dcs("set_display_on", <<>>, 10000, "Failed to set display on"),
     WSeq("0xf0", <<90, 90>>, 10000),
     WSeq("0xb0", <<5>>, 10000),
     WSeq("0xb1", <<64>>, 10000),
     WSeq("0xb0", <<3>>, 10000),
     WSeq("0xb6", <<162>>, 10000),
     WSeq("0xf0", <<165, 165>>, 10000),
     Dcs("set_display_on", <<>>, 120000, "Failed to set display on") >>

PowerOffSeq ==
  << Dcs("set_display_off", <<>>, 0, "Failed to set display off"),
     Dcs("enter_sleep_mode", <<>>, 120000, "Failed to enter sleep mode") >>

NOn == Len(PowerOnSeq)

NOff == Len(PowerOffSeq)

\* mipi_dsi_dcs_write_seq leaves the calling function with the error when the
\* transfer fails
mipi_dsi_dcs_write_seq_returns(rc) == rc < 0

\* the driver's own tests of ret dropped: only write_seq steps end the sequence
step_abort_unchecked(s, rc) ==
  IF s.seq THEN mipi_dsi_dcs_write_seq_returns(rc) ELSE FALSE

\* does step s, whose transfer returned rc, end the sequence?
StepAborts(s, rc) ==
  IF s.seq THEN mipi_dsi_dcs_write_seq_returns(rc) ELSE rc < 0

\* run steps i.. of a table: send, on error log and return it, else settle
RECURSIVE RunFrom(_, _, _, _)
RunFrom(tbl, i, st, t) ==
  IF i > Len(tbl) THEN [st |-> st, ret |-> 0]
  ELSE LET s    == tbl[i]
           rc   == Xfer(t, i)
           sent == dsi_transfer(st, s.cmd, s.params, rc)
       IN  IF StepAborts(s, rc)
           THEN [st |-> dev_err(sent, s.what, rc), ret |-> rc]
           ELSE RunFrom(tbl, i + 1,
                        IF s.delay > 0 THEN usleep_range(sent, s.delay) ELSE sent,
                        t)

\* power-on with the page address sent before the column address
on_page_before_column(st, t) ==
  RunFrom([i \in 1..NOn |-> IF i = 2 THEN PowerOnSeq[3]
                            ELSE IF i = 3 THEN PowerOnSeq[2]
                            ELSE PowerOnSeq[i]], 1, st, t)

\* power-on whose second vendor group ends with the unlock key again
on_second_group_open(st, t) ==
  RunFrom([i \in 1..NOn |-> IF i = 26 THEN WSeq("0xf0", <<90, 90>>, 10000)
                            ELSE PowerOnSeq[i]], 1, st, t)

\* power-on that gives the final display-on only the short settle
on_short_final_settle(st, t) ==
  RunFrom([i \in 1..NOn |-> IF i = NOn THEN [PowerOnSeq[i] EXCEPT !.delay = 10000]
                            ELSE PowerOnSeq[i]], 1, st, t)

samsung_ea8074_on(st, t) == RunFrom(PowerOnSeq, 1, st, t)

samsung_ea8074_off(st, t) == RunFrom(PowerOffSeq, 1, st, t)

----------------------------------------------------------------------------
(* prepare / unprepare *)

\* prepare that returns the error without driving the reset line back
prepare_no_rollback(st, t) ==
  IF st.prepared THEN [st |-> st, ret |-> 0]
  ELSE LET r == samsung_ea8074_on(samsung_ea8074_reset(st), t)
       IN  IF r.ret < 0
           THEN [st  |-> dev_err(r.st, "Failed to initialize panel", r.ret),
                 ret |-> r.ret]
           ELSE [st |-> [r.st EXCEPT !.prepared = TRUE], ret |-> 0]

\* prepare that marks the panel prepared before the power-on sequence ran
prepare_flag_first(st, t) ==
  IF st.prepared THEN [st |-> st, ret |-> 0]
  ELSE LET r == samsung_ea8074_on(
                  [samsung_ea8074_reset(st) EXCEPT !.prepared = TRUE], t)
       IN  IF r.ret < 0
           THEN [st  |-> gpiod_set_value_cansleep(
                           dev_err(r.st, "Failed to initialize panel", r.ret), 1),
                 ret |-> r.ret]
           ELSE [st |-> r.st, ret |-> 0]

\* prepare that tries reset and power-on a second time before giving up
prepare_retry_once(st, t) ==
  IF st.prepared THEN [st |-> st, ret |-> 0]
  ELSE LET r1 == samsung_ea8074_on(samsung_ea8074_reset(st), t)
           r  == IF r1.ret < 0
                 THEN samsung_ea8074_on(samsung_ea8074_reset(r1.st), t)
                 ELSE r1
       IN  IF r.ret < 0
           THEN [st  |-> gpiod_set_value_cansleep(
                           dev_err(r.st, "Failed to initialize panel", r.ret), 1),
                 ret |-> r.ret]
           ELSE [st |-> [r.st EXCEPT !.prepared = TRUE], ret |-> 0]

\* prepare without the test of ctx->prepared
prepare_no_guard(st, t) ==
  LET r == samsung_ea8074_on(samsung_ea8074_reset(st), t)
  IN  IF r.ret < 0
      THEN [st  |-> gpiod_set_value_cansleep(
                      dev_err(r.st, "Failed to initialize panel", r.ret), 1),
            ret |-> r.ret]
      ELSE [st |-> [r.st EXCEPT !.prepared = TRUE], ret |-> 0]

samsung_ea8074_prepare(st, t) ==
  IF st.prepared THEN [st |-> st, ret |-> 0]
  ELSE LET r == samsung_ea8074_on(samsung_ea8074_reset(st), t)
       IN  IF r.ret < 0
           THEN [st  |-> gpiod_set_value_cansleep(
                           dev_err(r.st, "Failed to initialize panel", r.ret), 1),
                 ret |-> r.ret]
           ELSE [st |-> [r.st EXCEPT !.prepared = TRUE], ret |-> 0]

\* unprepare that gives up when the power-off sequence fails
unprepare_early_return(st, t) ==
  IF ~st.prepared THEN [st |-> st, ret |-> 0]
  ELSE LET r == samsung_ea8074_off(st, t)
       IN  IF r.ret < 0
           THEN [st  |-> dev_err(r.st, "Failed to un-initialize panel", r.ret),
                 ret |-> r.ret]
           ELSE [st  |-> [gpiod_set_value_cansleep(r.st, 1) EXCEPT !.prepared = FALSE],
                 ret |-> 0]

\* unprepare that does not log the power-off failure
unprepare_silent(st, t) ==
  IF ~st.prepared THEN [st |-> st, ret |-> 0]
  ELSE LET r == samsung_ea8074_off(st, t)
       IN  [st  |-> [gpiod_set_value_cansleep(r.st, 1) EXCEPT !.prepared = FALSE],
            ret |-> 0]

\* unprepare that leaves the reset line as it is
unprepare_no_reset(st, t) ==
  IF ~st.prepared THEN [st |-> st, ret |-> 0]
  ELSE LET r == samsung_ea8074_off(st, t)
           l == IF r.ret < 0
                THEN dev_err(r.st, "Failed to un-initialize panel", r.ret)
                ELSE r.st
       IN  [st |-> [l EXCEPT !.prepared = FALSE], ret |-> 0]

\* unprepare without the test of ctx->prepared
unprepare_no_guard(st, t) ==
  LET r == samsung_ea8074_off(st, t)
      l == IF r.ret < 0
           THEN dev_err(r.st, "Failed to un-initialize panel", r.ret)
           ELSE r.st
  IN  [st  |-> [gpiod_set_value_cansleep(l, 1) EXCEPT !.prepared = FALSE],
       ret |-> 0]

samsung_ea8074_unprepare(st, t) ==
  IF ~st.prepared THEN [st |-> st, ret |-> 0]
  ELSE LET r == samsung_ea8074_off(st, t)
           l == IF r.ret < 0
                THEN dev_err(r.st, "Failed to un-initialize panel", r.ret)
                ELSE r.st
       IN  [st  |-> [gpiod_set_value_cansleep(l, 1) EXCEPT !.prepared = FALSE],
            ret |-> 0]

----------------------------------------------------------------------------
(* Backlight callbacks *)

\* u16 brightness = backlight_get_brightness(bl)
U16(v) == v % 65536

\* update_status that does nothing while the panel is not prepared
bl_update_status_gated(st, v, t) ==
  IF ~st.prepared THEN [st |-> st, ret |-> 0]
  ELSE LET brightness == U16(v)
           s1 == [st EXCEPT !.mode_flags = @ \ {"LPM"}]
           rc == Xfer(t, 1)
           s2 == dsi_transfer(s1, "set_display_brightness_large", <<brightness>>, rc)
       IN  IF rc < 0 THEN [st |-> s2, ret |-> rc]
           ELSE [st |-> [s2 EXCEPT !.mode_flags = @ \cup {"LPM"}], ret |-> 0]

\* update_status that keeps the brightness in a u8
bl_update_status_u8(st, v, t) ==
  LET brightness == v % 256
      s1 == [st EXCEPT !.mode_flags = @ \ {"LPM"}]
      rc == Xfer(t, 1)
      s2 == dsi_transfer(s1, "set_display_brightness_large", <<brightness>>, rc)
  IN  IF rc < 0 THEN [st |-> s2, ret |-> rc]
      ELSE [st |-> [s2 EXCEPT !.mode_flags = @ \cup {"LPM"}], ret |-> 0]

samsung_ea8074_bl_update_status(st, v, t) ==
  LET brightness == U16(v)
      s1 == [st EXCEPT !.mode_flags = @ \ {"LPM"}]
      rc == Xfer(t, 1)
      s2 == dsi_transfer(s1, "set_display_brightness_large", <<brightness>>, rc)
  IN  IF rc < 0 THEN [st |-> s2, ret |-> rc]
      ELSE [st |-> [s2 EXCEPT !.mode_flags = @ \cup {"LPM"}], ret |-> 0]

samsung_ea8074_bl_get_brightness(st, hw, t) ==
  LET s1 == [st EXCEPT !.mode_flags = @ \ {"LPM"}]
      rc == Xfer(t, 1)
      s2 == dsi_transfer(s1, "get_display_brightness_large", <<>>, rc)
  IN  IF rc < 0 THEN [st |-> s2, ret |-> rc]
      ELSE [st |-> [s2 EXCEPT !.mode_flags = @ \cup {"LPM"}], ret |-> U16(hw)]

----------------------------------------------------------------------------
(* The display mode *)

samsung_ea8074_mode ==
  [ clock       |-> ((1080 + 48 + 16 + 48) * (2160 + 20 + 12 + 28) * 60) \div 1000,
    hdisplay    |-> 1080,
    hsync_start |-> 1080 + 48,
    hsync_end   |-> 1080 + 48 + 16,
    htotal      |-> 1080 + 48 + 16 + 48,
    vdisplay    |-> 2160,
    vsync_start |-> 2160 + 20,
    vsync_end   |-> 2160 + 20 + 12,
    vtotal      |-> 2160 + 20 + 12 + 28,
    width_mm    |-> 68,
    height_mm   |-> 137,
    type        |-> {},
    name        |-> <<>> ]

\* get_modes that marks the static descriptor instead of the duplicate
get_modes_marks_static(conn, static, alloc_ok) ==
  IF ~alloc_ok THEN [conn |-> conn, static |-> static, ret |-> 0 - 12]
  ELSE LET marked == [static EXCEPT !.type = {"DRIVER", "PREFERRED"}]
           mode   == [static EXCEPT !.name = <<static.hdisplay, static.vdisplay>>]
       IN  [conn   |-> [probed_modes |-> Append(conn.probed_modes, mode),
                        width_mm     |-> mode.width_mm,
                        height_mm    |-> mode.height_mm],
            static |-> marked,
            ret    |-> 1]

\* drm_mode_duplicate (NULL when the allocation fails), drm_mode_set_name
\* ("<hdisplay>x<vdisplay>"), type, display_info, drm_mode_probed_add
samsung_ea8074_get_modes(conn, static, alloc_ok) ==
  IF ~alloc_ok THEN [conn |-> conn, static |-> static, ret |-> 0 - 12]
  ELSE LET dup   == static
           named == [dup EXCEPT !.name = <<dup.hdisplay, dup.vdisplay>>]
           mode  == [named EXCEPT !.type = {"DRIVER", "PREFERRED"}]
       IN  [conn   |-> [probed_modes |-> Append(conn.probed_modes, mode),
                        width_mm     |-> mode.width_mm,
                        height_mm    |-> mode.height_mm],
            static |-> static,
            ret    |-> 1]

----------------------------------------------------------------------------
(* clk-regmap.c *)

RECURSIVE Pow2(_)
Pow2(n) == IF n = 0 THEN 1 ELSE 2 * Pow2(n - 1)

\* all bits of the register set
RegMax == Pow2(RegBits) - 1

\* a & b, a | b and ~a on register values
RECURSIVE BitAnd(_, _)
BitAnd(a, b) ==
  IF a = 0 \/ b = 0 THEN 0
  ELSE (a % 2) * (b % 2) + 2 * BitAnd(a \div 2, b \div 2)

BitOr(a, b) == a + b - BitAnd(a, b)

BitNot(a) == RegMax - a

\* regmap_update_bits: one masked read-modify-write; nothing is written when
\* the access fails (rc # 0)
regmap_update_bits(reg, mask, val, rc) ==
  IF rc # 0 THEN reg
  ELSE BitOr(BitAnd(reg, BitNot(mask)), BitAnd(val, mask))

clk_is_enabled_regmap(r, reg, rc) ==
  LET val == reg
  IN  IF rc # 0 THEN rc
      ELSE IF r.enable_is_inverted
           THEN (IF BitAnd(val, r.enable_mask) = 0 THEN 1 ELSE 0)
           ELSE (IF BitAnd(val, r.enable_mask) # 0 THEN 1 ELSE 0)

\* enable that ignores enable_is_inverted
clk_enable_ignores_polarity(r, reg, rc) ==
  [reg |-> regmap_update_bits(reg, r.enable_mask, r.enable_mask, rc), ret |-> rc]

clk_enable_regmap(r, reg, rc) ==
  LET val == IF r.enable_is_inverted THEN 0 ELSE r.enable_mask
  IN  [reg |-> regmap_update_bits(reg, r.enable_mask, val, rc), ret |-> rc]

\* void: the result of regmap_update_bits is dropped
clk_disable_regmap(r, reg, rc) ==
  LET val == IF r.enable_is_inverted THEN r.enable_mask ELSE 0
  IN  [reg |-> regmap_update_bits(reg, r.enable_mask, val, rc), ret |-> 0]

\* list_for_each_entry over the list: is hw on it?
RECURSIVE ListHas(_, _)
ListHas(list, hw) ==
  IF list = <<>> THEN FALSE
  ELSE IF Head(list) = hw THEN TRUE
  ELSE ListHas(Tail(list), hw)

\* hw = 0 is NULL.  The lock is taken for the scan only; `locked` tells
\* whether it was taken, `lock` is its state on return.
clk_is_regmap_clk(list, lock, hw) ==
  IF hw # 0
  THEN [ret |-> IF ListHas(list, hw) THEN 1 ELSE 0, locked |-> TRUE, lock |-> FALSE]
  ELSE [ret |-> 0, locked |-> FALSE, lock |-> lock]

\* dev is "regmap" (it has a regmap), "parent" (it has none but has a
\* parent) or "none".  rc is the result of devm_clk_hw_register.
devm_clk_register_regmap(list, of, registered, c, dev, rc) ==
  [ of   |-> IF dev = "regmap" THEN [of EXCEPT ![c] = "dev"]
             ELSE IF dev = "parent" THEN [of EXCEPT ![c] = "parent"]
             ELSE of,
    list |-> list,
    registered |-> IF rc = 0 THEN registered \cup {c} ELSE registered,
    ret  |-> rc ]

----------------------------------------------------------------------------
(* History kept for the properties *)

\* the call contains the reset pulse 0, 1, 0
Pulsed(ev) ==
  LET g == Gpios(ev)
  IN  Len(g) >= 3 /\ g[1].val = 0 /\ g[2].val = 1 /\ g[3].val = 0

\* every step of the power-on table was sent, in order, without error
OnComplete(ev) ==
  LET s == SelectSeq(Sends(ev), LAMBDA e : e.val = 0)
  IN  /\ Len(Sends(ev)) = NOn
      /\ Len(s) = NOn
      /\ \A i \in 1..NOn : s[i].cmd = PowerOnSeq[i].cmd /\ s[i].params = PowerOnSeq[i].params

\* a command of the power-off table went out
RanOff(ev) == \E i \in 1..Len(Sends(ev)) : Sends(ev)[i].cmd = "set_display_off"

\* the 0xF0 transfers of a call: <<0x5a, 0x5a>> unlocks, <<0xa5, 0xa5>> locks
F0s(ev) == SelectSeq(Sends(ev), LAMBDA e : e.cmd = "0xf0")

IsUnlock(e) == e.cmd = "0xf0" /\ e.params = <<90, 90>>

IsLock(e) == e.cmd = "0xf0" /\ e.params = <<165, 165>>

\* the 0xF0 transfers of a call that the panel received
F0sOk(ev) == SelectSeq(F0s(ev), LAMBDA e : e.val = 0)

NextHist(h, o, r, ev, was, now, gpio) ==
  [ f0last  |-> IF F0sOk(ev) = <<>> THEN h.f0last
                ELSE IF IsLock(F0sOk(ev)[Len(F0sOk(ev))]) THEN "lock" ELSE "unlock",
    f0locks |-> IF Pulsed(ev)
                THEN Len(SelectSeq(F0sOk(ev), IsLock))
                ELSE h.f0locks + Len(SelectSeq(F0sOk(ev), IsLock)),
    pulsed  |-> h.pulsed \/ Pulsed(ev),
    onOk    |-> IF Pulsed(ev) THEN OnComplete(ev) ELSE h.onOk,
    off     |-> IF Pulsed(ev) THEN FALSE ELSE (h.off \/ RanOff(ev)),
    everOk  |-> h.everOk \/ (o = "prepare" /\ r = 0 /\ now),
    flip    |-> IF was # now THEN o ELSE h.flip,
    flipOff |-> IF was # now THEN RanOff(ev) ELSE h.flipOff,
    flipRst |-> IF was # now THEN gpio ELSE h.flipRst ]

\* what every call records about itself and about the call before it
Record(o, a, r, ev) ==
  /\ op'    = o
  /\ arg'   = a
  /\ ret'   = r
  /\ trace' = ev
  /\ pre'   = [prepared |-> prepared, reset_gpio |-> reset_gpio, mode_flags |-> mode_flags]
  /\ prev'  = [op |-> op, ok |-> ret >= 0, was |-> pre.prepared,
               nsend |-> Len(Sends(trace)), ngpio |-> Len(Gpios(trace))]

\* the state after a call `o` with argument `a` whose result is r
Finish(o, a, r) ==
  /\ UNCHANGED modevars
  /\ UNCHANGED clkvars
  /\ prepared'   = r.st.prepared
  /\ reset_gpio' = r.st.reset_gpio
  /\ mode_flags' = r.st.mode_flags
  /\ Record(o, a, r.ret, r.st.ev)
  /\ hist'  = NextHist(hist, o, r.ret, r.st.ev, prepared, r.st.prepared, r.st.reset_gpio)

\* the driver state at the start of a call
Cur ==
  [prepared |-> prepared, reset_gpio |-> reset_gpio, mode_flags |-> mode_flags,
   ev |-> <<>>]

----------------------------------------------------------------------------
(* Specification *)

Clks == 1..NumClks

\* no clk-regmap call made yet
NoClkCall ==
  [op |-> "none", hw |-> 0, rc |-> 0, ret |-> 0, before |-> 0, locked |-> FALSE,
   toggle |-> "none"]

\* clk-regmap.c before any clock is registered: empty list, lock free
ClkInit ==
  /\ clk_regmap_list = <<>>
  /\ clk_regmap_lock = FALSE
  /\ clk_regmap_of = [c \in Clks |-> "unset"]
  /\ clk_registered = {}
  /\ clkcall = NoClkCall

\* samsung_ea8074_probe: kzalloc'ed context, reset requested GPIOD_OUT_HIGH,
\* mode flags set; nothing reported to the connector yet
PanelProbe ==
  /\ prepared = FALSE
  /\ reset_gpio = 1
  /\ mode_flags = {"VIDEO_BURST", "CLOCK_NON_CONTINUOUS", "LPM"}
  /\ op = "probe"
  /\ arg = 0
  /\ ret = 0
  /\ trace = <<>>
  /\ pre = [prepared |-> FALSE, reset_gpio |-> 1,
            mode_flags |-> {"VIDEO_BURST", "CLOCK_NON_CONTINUOUS", "LPM"}]
  /\ prev = [op |-> "none", ok |-> TRUE, was |-> FALSE, nsend |-> 0, ngpio |-> 0]
  /\ hist = [pulsed |-> FALSE, onOk |-> FALSE, off |-> FALSE, everOk |-> FALSE,
             flip |-> "none", flipOff |-> FALSE, flipRst |-> 1,
             f0last |-> "none", f0locks |-> 0]
  /\ connector = [probed_modes |-> <<>>, width_mm |-> 0, height_mm |-> 0]
  /\ static_mode = samsung_ea8074_mode

\* the panel after probe; clk-regmap.c untouched, with one fixed clk_regmap
Init ==
  /\ PanelProbe
  /\ ClkInit
  /\ rclk = [enable_mask |-> 1, enable_is_inverted |-> FALSE]
  /\ enable_reg = 0

Prepare ==
  \E t \in Transports(NOn) : Finish("prepare", 0, samsung_ea8074_prepare(Cur, t))

Unprepare ==
  \E t \in Transports(NOff) : Finish("unprepare", 0, samsung_ea8074_unprepare(Cur, t))

BlUpdateStatus ==
  \E v \in BrightnessSamples : \E t \in Transports(1) :
    Finish("bl_update_status", v, samsung_ea8074_bl_update_status(Cur, v, t))

BlGetBrightness ==
  \E hw \in ReadBack : \E t \in Transports(1) :
    Finish("bl_get_brightness", 0, samsung_ea8074_bl_get_brightness(Cur, hw, t))

Next == Prepare \/ Unprepare \/ BlUpdateStatus \/ BlGetBrightness

Spec == Init /\ [][Next]_vars

(* get_modes together with the backlight callbacks.  prepare and unprepare *)
(* do not refer to the connector or to samsung_ea8074_mode.                *)

GetModes ==
  /\ Len(connector.probed_modes) < MaxProbed
  /\ \E alloc_ok \in BOOLEAN :
       LET r == samsung_ea8074_get_modes(connector, static_mode, alloc_ok)
       IN  /\ connector'   = r.conn
           /\ static_mode' = r.static
           /\ Record("get_modes", Len(connector.probed_modes), r.ret, <<>>)
           /\ hist' = NextHist(hist, "get_modes", r.ret, <<>>, prepared, prepared,
                               reset_gpio)
           /\ UNCHANGED <<prepared, reset_gpio, mode_flags>>
           /\ UNCHANGED clkvars

NextModes == GetModes \/ BlUpdateStatus \/ BlGetBrightness

SpecModes == Init /\ [][NextModes]_vars

(* The backlight callbacks alone, over the whole brightness range: one call *)
(* from the probed state.                                                   *)

BlUpdateStatusAny ==
  /\ op = "probe"
  /\ \E v \in 0..max_brightness : \E t \in Transports(1) :
       Finish("bl_update_status", v, samsung_ea8074_bl_update_status(Cur, v, t))

BlGetBrightnessAny ==
  /\ op = "probe"
  /\ \E hw \in 0..max_brightness : \E t \in Transports(1) :
       Finish("bl_get_brightness", 0, samsung_ea8074_bl_get_brightness(Cur, hw, t))

NextBl == BlUpdateStatusAny \/ BlGetBrightnessAny

SpecBl == Init /\ [][NextBl]_vars

(* clk-regmap.c: enable, disable and is_enabled of one clk_regmap, for     *)
(* every non-zero enable_mask, both polarities and every register content. *)

InitClk ==
  /\ PanelProbe
  /\ ClkInit
  /\ rclk \in [enable_mask : 1..RegMax, enable_is_inverted : BOOLEAN]
  /\ enable_reg \in 0..RegMax

\* results of a regmap access: 0 or a negative errno
RegmapRcs == {0} \cup Errs

ClkEnable ==
  \E rc \in RegmapRcs :
    LET r == clk_enable_regmap(rclk, enable_reg, rc)
    IN  /\ enable_reg' = r.reg
        /\ clkcall' = [op |-> "enable", hw |-> 1, rc |-> rc, ret |-> r.ret,
                       before |-> enable_reg, locked |-> FALSE,
                       toggle |-> IF rc = 0 THEN "enable_ok" ELSE "enable_failed"]
        /\ UNCHANGED <<rclk, clk_regmap_list, clk_regmap_lock, clk_regmap_of,
                       clk_registered>>
        /\ UNCHANGED panelvars
        /\ UNCHANGED modevars

ClkDisable ==
  \E rc \in RegmapRcs :
    LET r == clk_disable_regmap(rclk, enable_reg, rc)
    IN  /\ enable_reg' = r.reg
        /\ clkcall' = [op |-> "disable", hw |-> 1, rc |-> rc, ret |-> r.ret,
                       before |-> enable_reg, locked |-> FALSE,
                       toggle |-> IF rc = 0 THEN "disable_ok" ELSE "disable_failed"]
        /\ UNCHANGED <<rclk, clk_regmap_list, clk_regmap_lock, clk_regmap_of,
                       clk_registered>>
        /\ UNCHANGED panelvars
        /\ UNCHANGED modevars

ClkIsEnabled ==
  \E rc \in RegmapRcs :
    /\ clkcall' = [op |-> "is_enabled", hw |-> 1, rc |-> rc,
                   ret |-> clk_is_enabled_regmap(rclk, enable_reg, rc),
                   before |-> enable_reg, locked |-> FALSE,
                   toggle |-> clkcall.toggle]
    /\ UNCHANGED <<rclk, enable_reg, clk_regmap_list, clk_regmap_lock,
                   clk_regmap_of, clk_registered>>
    /\ UNCHANGED panelvars
    /\ UNCHANGED modevars

NextClk == ClkEnable \/ ClkDisable \/ ClkIsEnabled

SpecClk == InitClk /\ [][NextClk]_vars

(* clk-regmap.c: registration and the membership test. *)

ClkRegister ==
  \E c \in Clks : \E dev \in {"regmap", "parent", "none"} : \E rc \in RegmapRcs :
    LET r == devm_clk_register_regmap(clk_regmap_list, clk_regmap_of,
                                      clk_registered, c, dev, rc)
    IN  /\ clk_regmap_list' = r.list
        /\ clk_regmap_of' = r.of
        /\ clk_registered' = r.registered
        /\ clkcall' = [op |-> "register", hw |-> c, rc |-> rc, ret |-> r.ret,
                       before |-> 0, locked |-> FALSE, toggle |-> "none"]
        /\ UNCHANGED <<rclk, enable_reg, clk_regmap_lock>>
        /\ UNCHANGED panelvars
        /\ UNCHANGED modevars

ClkIsRegmapClk ==
  /\ ~clk_regmap_lock
  /\ \E hw \in 0..NumClks :
       LET r == clk_is_regmap_clk(clk_regmap_list, clk_regmap_lock, hw)
       IN  /\ clk_regmap_lock' = r.lock
           /\ clkcall' = [op |-> "is_regmap_clk", hw |-> hw, rc |-> 0, ret |-> r.ret,
                          before |-> 0, locked |-> r.locked, toggle |-> "none"]
           /\ UNCHANGED <<rclk, enable_reg, clk_regmap_list, clk_regmap_of,
                          clk_registered>>
           /\ UNCHANGED panelvars
           /\ UNCHANGED modevars

NextList == ClkRegister \/ ClkIsRegmapClk

SpecList == Init /\ [][NextList]_vars

----------------------------------------------------------------------------
(* Properties *)

\* the send events of the last call
Sent == Sends(trace)

\* some transfer of the last call failed
Failed == \E i \in 1..Len(Sent) : Sent[i].val < 0

\* the return code of the first failed transfer of the last call
FirstError ==
  LET i == CHOOSE j \in 1..Len(Sent) :
             Sent[j].val < 0 /\ \A k \in 1..(j - 1) : Sent[k].val = 0
  IN  Sent[i].val

\* the last value driven on the reset line during the last call
LastGpio == Gpios(trace)[Len(Gpios(trace))].val

\* C1 - Rollback: when prepare() is called while unprepared and a transfer of
\* the power-on sequence fails (at any step, vendor writes included), then on
\* return the reset line is asserted (1), the last thing done to it in the
\* call was to assert it, prepared is still false and prepare() returns the
\* transfer's error.
C1_Rollback ==
  (op = "prepare" /\ ~pre.prepared /\ Failed) =>
    /\ reset_gpio = 1
    /\ LastGpio = 1
    /\ ~prepared
    /\ ret < 0
    /\ ret = FirstError

\* a prepare() whose 26th step, the vendor lock write, failed
C1_Witness ==
  /\ op = "prepare" /\ ~pre.prepared
  /\ Len(Sent) = 26
  /\ Sent[26].cmd = "0xf0" /\ Sent[26].val < 0
  /\ reset_gpio = 1 /\ ~prepared /\ ret < 0

\* C2 - Mode-flag restoration: after bl_update_status or bl_get_brightness,
\* whether the brightness command succeeded or failed, the low-power-mode
\* flag has the value it had before the call.
C2_ModeFlagRestored ==
  (op \in {"bl_update_status", "bl_get_brightness"}) =>
    (("LPM" \in mode_flags) <=> ("LPM" \in pre.mode_flags))

\* C3 - Best-effort teardown: when unprepare() is called while prepared and a
\* step of the power-off sequence fails, unprepare() still asserts the reset
\* line and still sets prepared to false.
C3_BestEffortTeardown ==
  (op = "unprepare" /\ pre.prepared /\ Failed) =>
    /\ Len(Gpios(trace)) = 1
    /\ LastGpio = 1
    /\ reset_gpio = 1
    /\ ~prepared

\* an unprepare() whose first step, display-off, failed
C3_Witness ==
  /\ op = "unprepare" /\ pre.prepared
  /\ Len(Sent) = 1
  /\ Sent[1].cmd = "set_display_off" /\ Sent[1].val < 0
  /\ reset_gpio = 1 /\ ~prepared

\* C4 - Idempotence of prepare: a prepare() that directly follows a
\* successful prepare() returns 0, sends nothing and does not touch the reset
\* line; over the two calls the reset pulse (three writes of the line) and
\* the power-on sequence (NOn transfers) were issued exactly once.
C4_PrepareIdempotent ==
  (op = "prepare" /\ prev.op = "prepare" /\ prev.ok) =>
    /\ ret = 0
    /\ Sent = <<>>
    /\ Gpios(trace) = <<>>
    /\ reset_gpio = pre.reset_gpio
    /\ prepared
    /\ (~prev.was => (prev.ngpio + Len(Gpios(trace)) = 3
                      /\ prev.nsend + Len(Sent) = NOn))

\* the second of two prepare() calls, the first made while unprepared
C4_Witness ==
  /\ op = "prepare" /\ prev.op = "prepare" /\ prev.ok /\ ~prev.was
  /\ prev.nsend = NOn
  /\ ret = 0 /\ trace = <<>>

\* C5 - Idempotence of unprepare: unprepare() called while prepared is false
\* returns 0, sends nothing and leaves prepared and the reset line as they
\* were.
C5_UnprepareIdempotent ==
  (op = "unprepare" /\ ~pre.prepared) =>
    /\ ret = 0
    /\ Sent = <<>>
    /\ Gpios(trace) = <<>>
    /\ prepared = pre.prepared
    /\ reset_gpio = pre.reset_gpio

\* an unprepare() right after a prepare() that failed
C5_Witness ==
  /\ op = "unprepare" /\ ~pre.prepared
  /\ prev.op = "prepare" /\ ~prev.ok
  /\ ret = 0 /\ trace = <<>> /\ ~prepared

\* the reset-line writes and the transfers of the last call, in program order
Actions == SelectSeq(trace, LAMBDA e : e.kind \in {"gpio", "send"})

\* C6 - Successful prepare: when prepare() is called while unprepared and no
\* transfer fails, it returns 0 with prepared true; the reset line was driven
\* 0, 1, 0 before the first command went out, was not driven again, and is
\* deasserted (0) on return.
C6_SuccessfulPrepare ==
  (op = "prepare" /\ ~pre.prepared /\ ~Failed) =>
    /\ ret = 0
    /\ prepared
    /\ Len(Actions) = 3 + NOn
    /\ Actions[1] = GpioEv(0) /\ Actions[2] = GpioEv(1) /\ Actions[3] = GpioEv(0)
    /\ \A i \in 4..Len(Actions) : Actions[i].kind = "send"
    /\ reset_gpio = 0

\* a prepare() from the unprepared state in which every transfer worked
C6_Witness ==
  /\ op = "prepare" /\ ~pre.prepared /\ ~Failed
  /\ Len(Sent) = NOn
  /\ prepared /\ ret = 0 /\ reset_gpio = 0

\* a successful transfer of cmd comes before position j of the last call
SentBefore(cmd, j) ==
  \E i \in 1..(j - 1) : Sent[i].cmd = cmd /\ Sent[i].val = 0

\* C7 - Ordering in the power-on sequence: in every prepare(), complete or
\* aborted, set-page-address is only sent after set-column-address,
\* memory-write-start only after set-page-address, and display-on (the final
\* one included) only after memory-write-start; a complete run ends with
\* display-on.
C7_Ordering ==
  (op = "prepare") =>
    /\ \A j \in 1..Len(Sent) :
         /\ Sent[j].cmd = "set_page_address" => SentBefore("set_column_address", j)
         /\ Sent[j].cmd = "write_memory_start" => SentBefore("set_page_address", j)
         /\ Sent[j].cmd = "set_display_on" => SentBefore("write_memory_start", j)
    /\ (~pre.prepared /\ ret = 0) =>
         (Len(Sent) = NOn /\ Sent[NOn].cmd = "set_display_on")

\* a complete power-on run, and so one that sent all four commands
C7_Witness ==
  /\ op = "prepare" /\ ret = 0
  /\ Len(Sent) = NOn
  /\ Sent[2].cmd = "set_column_address" /\ Sent[3].cmd = "set_page_address"
  /\ Sent[19].cmd = "write_memory_start" /\ Sent[NOn].cmd = "set_display_on"

\* C8 (as stated) - No error is silently dropped: whenever a transfer fails
\* during prepare(), unprepare(), bl_update_status or bl_get_brightness, the
\* call returns an error to its caller.
C8_ErrorReturned == Failed => ret < 0

\* C8 (amended) - a transfer that fails during prepare(), bl_update_status
\* or bl_get_brightness makes the call return that error; one that fails
\* during unprepare() is logged ("Failed to un-initialize panel", with the
\* error) and unprepare() completes the teardown and returns 0.
C8_ErrorReported ==
  Failed =>
    IF op = "unprepare"
    THEN /\ ret = 0
         /\ \E i \in 1..Len(Logs(trace)) :
              /\ Logs(trace)[i].cmd = "Failed to un-initialize panel"
              /\ Logs(trace)[i].val = FirstError
         /\ ~prepared /\ reset_gpio = 1
    ELSE ret = FirstError

\* an unprepare() whose power-off sequence failed at enter-sleep
C8_Witness ==
  /\ op = "unprepare" /\ Failed
  /\ Len(Sent) = 2 /\ Sent[2].cmd = "enter_sleep_mode" /\ Sent[2].val < 0
  /\ ret = 0

\* C9 - Prepared-flag invariant: between calls, prepared = TRUE implies that
\* the most recent reset pulse was followed by a power-on sequence that sent
\* all its steps without error and that no power-off has run since;
\* prepared = FALSE implies that no prepare() ever succeeded or that
\* prepared was last changed by an unprepare() that ran the power-off
\* sequence and left the reset line asserted.
C9_PreparedInvariant ==
  /\ prepared => (hist.pulsed /\ hist.onOk /\ ~hist.off)
  /\ ~prepared =>
       \/ ~hist.everOk
       \/ (hist.flip = "unprepare" /\ hist.flipOff /\ hist.flipRst = 1)

\* unprepared again after a full cycle, and a retried prepare() has failed
C9_Witness ==
  /\ ~prepared /\ hist.everOk /\ hist.flip = "unprepare"
  /\ op = "prepare" /\ ret < 0
  /\ hist.pulsed /\ ~hist.onOk

\* C10 - bl_update_status: for every requested value v in 0..1023 the call
\* makes exactly one transfer, the brightness write carrying v, and returns
\* 0 when it worked and the transport's error when it failed.
C10_SetBrightness ==
  (op = "bl_update_status") =>
    /\ Len(Sent) = 1
    /\ Sent[1].cmd = "set_display_brightness_large"
    /\ Sent[1].params = <<arg>>
    /\ ret = Sent[1].val
    /\ ret \in ({0} \cup Errs)

\* bl_update_status(512) on a healthy transport
C10_Witness ==
  /\ op = "bl_update_status" /\ arg = 512
  /\ Len(Sent) = 1 /\ Sent[1].params = <<512>> /\ Sent[1].val = 0
  /\ ret = 0


\* the mode the last get_modes call added to the connector
Reported == connector.probed_modes[Len(connector.probed_modes)]

\* C11 (as stated) - get_modes reports exactly one mode on every call:
\* 1080 x 2160, preferred, physical size 68 mm x 137 mm on the connector;
\* the static descriptor is never modified.
C11_OneModeEveryCall ==
  /\ static_mode = samsung_ea8074_mode
  /\ (op = "get_modes") =>
       /\ ret = 1
       /\ Len(connector.probed_modes) = arg + 1
       /\ Reported.hdisplay = 1080 /\ Reported.vdisplay = 2160
       /\ "PREFERRED" \in Reported.type
       /\ connector.width_mm = 68 /\ connector.height_mm = 137

\* C11 (amended) - every get_modes call whose mode duplication succeeds
\* returns 1 and adds exactly one mode: 1080 x 2160, preferred, with 68 mm x
\* 137 mm written to the connector; a call whose duplication fails returns
\* -ENOMEM (-12) and adds nothing; the static descriptor is never modified.
C11_GetModes ==
  /\ static_mode = samsung_ea8074_mode
  /\ (op = "get_modes") =>
       /\ ret \in {1, 0 - 12}
       /\ ret = 1 =>
            /\ Len(connector.probed_modes) = arg + 1
            /\ Reported.hdisplay = 1080 /\ Reported.vdisplay = 2160
            /\ "PREFERRED" \in Reported.type
            /\ connector.width_mm = 68 /\ connector.height_mm = 137
       /\ ret # 1 => Len(connector.probed_modes) = arg

\* a second successful get_modes call on the same connector
C11_Witness ==
  /\ op = "get_modes" /\ ret = 1 /\ arg = 1
  /\ Len(connector.probed_modes) = 2
  /\ Reported.hdisplay = 1080 /\ "PREFERRED" \in Reported.type


\* the transfers of the last call are the first Len(Sent) steps of tbl
PrefixOf(tbl) ==
  /\ Len(Sent) <= Len(tbl)
  /\ \A i \in 1..Len(Sent) :
       Sent[i].cmd = tbl[i].cmd /\ Sent[i].params = tbl[i].params

\* C12 - Sequencer abort: in prepare() and in unprepare(), a transfer that
\* fails is the last transfer of the call (after a failed display-off,
\* enter-sleep is not sent), and the transfers made are always a prefix of
\* the power-on, respectively power-off, sequence.
C12_SequencerAbort ==
  /\ (op = "prepare") => PrefixOf(PowerOnSeq)
  /\ (op = "unprepare") => PrefixOf(PowerOffSeq)
  /\ (op \in {"prepare", "unprepare"}) =>
       \A i \in 1..Len(Sent) : Sent[i].val < 0 => i = Len(Sent)

\* a prepare() that stopped at the failed set-page-address
C12_Witness ==
  /\ op = "prepare" /\ Len(Sent) = 3
  /\ Sent[3].cmd = "set_page_address" /\ Sent[3].val < 0
  /\ \A i \in 1..Len(Sent) : Sent[i].cmd # "set_tear_on"


\* C13 - Bus mode for unrelated traffic: after any serialized sequence of
\* prepare(), unprepare(), bl_update_status and bl_get_brightness calls from
\* the probed state, every command of the power-on and power-off sequences
\* goes out with the low-power-mode flag set; only the brightness read and
\* write go out with the flag cleared.
C13_BusMode ==
  \A i \in 1..Len(Sent) :
    /\ (op \in {"prepare", "unprepare"}) => Sent[i].lpm
    /\ ~Sent[i].lpm =>
         Sent[i].cmd \in {"set_display_brightness_large", "get_display_brightness_large"}


\* the 0xF0 transfers of the last call
F0 == F0s(trace)

\* unlock and lock alternate in the last call, starting with unlock
Alternate ==
  \A i \in 1..Len(F0) :
    IF i % 2 = 1 THEN IsUnlock(F0[i]) ELSE IsLock(F0[i])

\* C14 (as stated) - Unlock/lock bracketing: in the power-on sequence unlock
\* and lock strictly alternate starting with unlock, a lock follows each
\* unlock that was sent, and whenever prepared is true the most recent 0xF0
\* command sent was the lock, two groups having been completed.
C14_LockFollowsUnlock ==
  /\ (op = "prepare") =>
       /\ Alternate
       /\ \A i \in 1..Len(Sent) :
            (IsUnlock(Sent[i]) /\ Sent[i].val = 0) =>
              \E j \in (i + 1)..Len(Sent) : IsLock(Sent[j])
  /\ prepared => (hist.f0last = "lock" /\ hist.f0locks = 2)

\* C14 (amended) - in the power-on sequence unlock and lock strictly alternate
\* starting with unlock; in a run that is not aborted a lock follows each
\* unlock (two groups), while a run aborted by a transfer error may end
\* after an unlock that no lock follows; whenever prepared is true the most
\* recent 0xF0 command sent was the lock and exactly two groups have been
\* completed since the reset pulse.
C14_Bracketing ==
  /\ (op = "prepare") =>
       /\ Alternate
       /\ Len(F0) <= 4
       /\ (~pre.prepared /\ ret = 0) =>
            (Len(F0) = 4 /\ \A i \in 1..4 : F0[i].val = 0)
       /\ (Len(F0) % 2 = 1) => ret < 0
  /\ (op # "prepare") => F0 = <<>>
  /\ prepared => (hist.f0last = "lock" /\ hist.f0locks = 2)

\* a prepare() aborted inside the first vendor group: unlock sent, no lock
C14_Witness ==
  /\ op = "prepare" /\ ret < 0
  /\ Len(F0) = 1 /\ IsUnlock(F0[1]) /\ F0[1].val = 0
  /\ Len(Sent) = 11
  /\ ~prepared


\* the values driven on the reset line during the last call
GpioVals == [i \in 1..Len(Gpios(trace)) |-> Gpios(trace)[i].val]

\* C15 - No automatic retry: one prepare() call makes at most one reset pulse
\* and at most one pass over the power-on sequence (no step position is sent
\* twice), one unprepare() call at most one pass over the power-off
\* sequence; a prepare() called after a failed prepare() is not a no-op: it
\* starts again with the reset pulse and step 1.
C15_NoRetry ==
  /\ (op = "prepare") =>
       /\ GpioVals \in {<<>>, <<0, 1, 0>>, <<0, 1, 0, 1>>}
       /\ PrefixOf(PowerOnSeq)
       /\ Len(SelectSeq(Sent, LAMBDA e : e.cmd = "exit_sleep_mode")) <= 1
  /\ (op = "unprepare") =>
       /\ PrefixOf(PowerOffSeq)
       /\ Len(SelectSeq(Sent, LAMBDA e : e.cmd = "set_display_off")) <= 1
  /\ (op = "prepare" /\ prev.op = "prepare" /\ ~prev.ok) =>
       /\ ~pre.prepared
       /\ Pulsed(trace)
       /\ Len(Actions) >= 4
       /\ Actions[1].kind = "gpio" /\ Actions[4] = Sent[1]
       /\ Sent[1].cmd = "exit_sleep_mode"

\* a prepare() retried by the caller after a failed one, failing again
C15_Witness ==
  /\ op = "prepare" /\ prev.op = "prepare" /\ ~prev.ok
  /\ ret < 0
  /\ GpioVals = <<0, 1, 0, 1>>
  /\ Sent[1].cmd = "exit_sleep_mode"


\* event k of the last call is a transfer that worked
SentOk(k) == trace[k].kind = "send" /\ trace[k].val = 0

\* event k of the last call is followed at once by a sleep of at least us
SettledBy(k, us) ==
  k < Len(trace) /\ trace[k + 1].kind = "sleep" /\ trace[k + 1].val >= us

\* event k is a display-on and an earlier display-on went out in the call
FinalDisplayOn(k) ==
  /\ trace[k].cmd = "set_display_on"
  /\ \E j \in 1..(k - 1) : trace[j].kind = "send" /\ trace[j].cmd = "set_display_on"

\* the sleeps of the last call
Sleeps == OfKind(trace, "sleep")

\* in unprepare() the only sleep is 120 ms right after a successful enter-sleep
OffSettle ==
  (op = "unprepare") =>
    /\ \A k \in 1..Len(trace) :
         (SentOk(k) /\ trace[k].cmd = "enter_sleep_mode") => SettledBy(k, 120000)
    /\ Len(Sleeps) =
         Len(SelectSeq(Sent, LAMBDA e : e.cmd = "enter_sleep_mode" /\ e.val = 0))

\* C16 (as stated) - in the power-on sequence every display-on command that
\* succeeds is followed by a settle of at least 120 ms before the next
\* command or the return; in the power-off sequence the only settle is the
\* 120 ms one after enter-sleep.
C16_EveryDisplayOnSettles ==
  /\ (op = "prepare") =>
       \A k \in 1..Len(trace) :
         (SentOk(k) /\ trace[k].cmd = "set_display_on") => SettledBy(k, 120000)
  /\ OffSettle

\* C16 (amended) - in the power-on sequence the final display-on, when it
\* succeeds, is followed by a settle of at least 120 ms before the sequence
\* returns; the earlier display-on, like every other successful command, is
\* followed by a settle of at least 10 ms before the next command; in the
\* power-off sequence the only settle is the 120 ms one after enter-sleep.
C16_Settle ==
  /\ (op = "prepare") =>
       \A k \in 1..Len(trace) :
         SentOk(k) =>
           /\ SettledBy(k, 10000)
           /\ FinalDisplayOn(k) => (SettledBy(k, 120000) /\ k + 1 = Len(trace))
  /\ OffSettle

\* a complete power-on run: 10 ms after the first display-on, 120 ms after
\* the final one
C16_Witness ==
  /\ op = "prepare" /\ ret = 0 /\ ~pre.prepared
  /\ trace[Len(trace)] = SleepEv(120000)
  /\ trace[Len(trace) - 1].cmd = "set_display_on"
  /\ \E k \in 1..Len(trace) :
       /\ SentOk(k) /\ trace[k].cmd = "set_display_on"
       /\ trace[k + 1] = SleepEv(10000)


\* C17 - Quiescent invariant: from the probed state (reset line requested
\* asserted, prepared false), after every completed prepare() or unprepare()
\* call, whatever failed, the reset line is asserted (1) exactly when
\* prepared is false.
C17_ResetIffUnprepared == (reset_gpio = 1) <=> ~prepared

\* an unprepare() that took the panel from deasserted/prepared to
\* asserted/unprepared
C17_Witness ==
  /\ op = "unprepare" /\ pre.prepared /\ pre.reset_gpio = 0
  /\ ~prepared /\ reset_gpio = 1

\* C18 - Frame property: bl_update_status and bl_get_brightness change neither
\* prepared nor the reset line and are not gated on the power state (they
\* make their transfer also when prepared is false and the reset line is
\* asserted); prepare() and unprepare() never change the low-power-mode flag
\* (nor any other mode flag).
C18_Frame ==
  /\ (op \in {"bl_update_status", "bl_get_brightness"}) =>
       /\ prepared = pre.prepared
       /\ reset_gpio = pre.reset_gpio
       /\ Gpios(trace) = <<>>
       /\ Len(Sent) = 1
       /\ Sent[1].cmd = IF op = "bl_update_status"
                        THEN "set_display_brightness_large"
                        ELSE "get_display_brightness_large"
  /\ (op \in {"prepare", "unprepare"}) => mode_flags = pre.mode_flags

\* a brightness write sent while unprepared with the reset line asserted
C18_Witness ==
  /\ op = "bl_update_status" /\ ~pre.prepared /\ pre.reset_gpio = 1
  /\ Len(Sent) = 1 /\ Sent[1].cmd = "set_display_brightness_large"
  /\ ~prepared /\ reset_gpio = 1


\* the register bits outside enable_mask
Outside(reg) == BitAnd(reg, BitNot(rclk.enable_mask))

\* C19 (as stated) - Clock enable round-trip: for every non-zero enable_mask
\* and either polarity, after a successful clk_enable_regmap() the next
\* clk_is_enabled_regmap() returns true (1), after clk_disable_regmap() it
\* returns false (0), and enable/disable change only bits inside
\* enable_mask.
C19_RoundTrip ==
  /\ (clkcall.op = "is_enabled" /\ clkcall.toggle = "enable_ok") => clkcall.ret = 1
  /\ (clkcall.op = "is_enabled"
        /\ clkcall.toggle \in {"disable_ok", "disable_failed"}) => clkcall.ret = 0
  /\ (clkcall.op \in {"enable", "disable"}) =>
       Outside(enable_reg) = Outside(clkcall.before)

\* C19 (amended) - after a successful clk_enable_regmap() the next
\* clk_is_enabled_regmap() whose register read succeeds returns 1, after a
\* clk_disable_regmap() whose register write succeeded it returns 0; when the
\* read fails clk_is_enabled_regmap() returns the regmap error; enable and
\* disable change only bits inside enable_mask, and nothing when the access
\* fails; clk_enable_regmap() returns the result of the access.
C19_RoundTripOk ==
  /\ (clkcall.op = "is_enabled" /\ clkcall.rc = 0) =>
       /\ clkcall.toggle = "enable_ok" => clkcall.ret = 1
       /\ clkcall.toggle = "disable_ok" => clkcall.ret = 0
  /\ (clkcall.op = "is_enabled" /\ clkcall.rc # 0) => clkcall.ret = clkcall.rc
  /\ (clkcall.op \in {"enable", "disable"}) =>
       /\ Outside(enable_reg) = Outside(clkcall.before)
       /\ clkcall.rc # 0 => enable_reg = clkcall.before
  /\ (clkcall.op = "enable") => clkcall.ret = clkcall.rc

\* is_enabled answers 1 after the enable of an inverted clock with a
\* two-bit mask, other bits of the register being set
C19_Witness ==
  /\ clkcall.op = "is_enabled" /\ clkcall.rc = 0
  /\ clkcall.toggle = "enable_ok"
  /\ rclk.enable_is_inverted /\ rclk.enable_mask = 3
  /\ Outside(enable_reg) # 0
  /\ clkcall.ret = 1

\* C20 - Regmap-clock membership: clk_is_regmap_clk(hw) returns true (1) for
\* a clock registered through devm_clk_register_regmap() and false (0) for
\* NULL or a clock never registered; the list lock is taken only for the
\* scan (not for NULL) and is free on return.
C20_Membership ==
  (clkcall.op = "is_regmap_clk") =>
    /\ (clkcall.ret = 1) <=> (clkcall.hw \in clk_registered)
    /\ clkcall.locked <=> (clkcall.hw # 0)
    /\ ~clk_regmap_lock

====
